---- MODULE Spec2Model ----
(***************************************************************************)
(* Model of mlir/Pass/AnalysisManager.h: the preserved-analysis set, the   *)
(* per-operation analysis cache (AnalysisMap), the nested cache tree       *)
(* (NestedAnalysisMap) and the AnalysisManager facade.                     *)
(***************************************************************************)
EXTENDS Integers, Sequences, FiniteSets, TLC

\* Bound on the number of AnalysisModel objects constructed in one behaviour.
MaxInst == 2

----------------------------------------------------------------------------
\* The program-representation tree the caches are keyed by (external input):
\* module M with children C1 and C2, and G nested in C1.

Null == "null"

Nodes == {"M", "C1", "C2", "G"}

RootOp == "M"

getParentOp(op) ==
  CASE op = "C1" -> "M"
    [] op = "C2" -> "M"
    [] op = "G"  -> "C1"
    [] OTHER     -> Null

RECURSIVE isProperAncestor(_, _)
isProperAncestor(anc, op) ==
  IF getParentOp(op) = Null THEN FALSE
  ELSE getParentOp(op) = anc \/ isProperAncestor(anc, getParentOp(op))

\* Operations nested (at any depth) under op.
Descendants(op) == {d \in Nodes : isProperAncestor(op, d)}

----------------------------------------------------------------------------
\* Analysis types and their TypeIDs.

\* Analyses a pass can request: Liveness has no isInvalidated hook,
\* DominatorTree defines one.
Types == {"Liveness", "DominatorTree"}

\* TypeID of PreservedAnalyses::AllAnalysesType, the "all" sentinel.
AllAnalysesType == "AllAnalysesType"

\* TypeIDs a pass can name in preserve<>() / isPreserved<>().
AnalysisIds == Types \cup {"CFG"}

\* Every TypeID that can be a member of preservedIDs.
Ids == AnalysisIds \cup {AllAnalysesType}

\* llvm::getTypeName<AnalysisT>() as qualifier followed by the class name.
getTypeName(t) ==
  IF t = "Liveness" THEN <<"mlir::", "Liveness">>
  ELSE <<"(anonymous namespace)::", "DominatorTree">>

\* StringRef::consume_front on the qualifier.
consume_front(name, prefix) ==
  IF Len(name) > 0 /\ Head(name) = prefix
    THEN [ok |-> TRUE, rest |-> Tail(name)]
    ELSE [ok |-> FALSE, rest |-> name]

getAnalysisName(t) ==
  LET name == getTypeName(t)
      a    == consume_front(name, "mlir::")
  IN  IF a.ok THEN a.rest
      ELSE consume_front(name, "(anonymous namespace)::").rest

----------------------------------------------------------------------------
\* detail::PreservedAnalyses: the value is the set preservedIDs.

EmptyPreserved == {}

preserveAll(s) == s \cup {AllAnalysesType}

isAll(s) == AllAnalysesType \in s

\* An isNone that looks at the explicitly preserved ids only.
isNoneOfExplicit(s) == s \ {AllAnalysesType} = {}

isNone(s) == s = {}

preserve(s, id) == s \cup {id}

\* An isPreserved that answers true for every id once "all" is in the set.
isPreservedOrAll(s, id) == id \in s \/ AllAnalysesType \in s

isPreserved(s, id) == id \in s

----------------------------------------------------------------------------
\* analysis_impl::isInvalidated and the AnalysisModel hook.

\* llvm::is_detected<has_is_invalidated, AnalysisT>.
has_is_invalidated(t) == t = "DominatorTree"

\* DominatorTree::isInvalidated: invalidated unless CFG is preserved; written
\* to respect isAll().
DominatorTreeIsInvalidated(s) == ~isAll(s) /\ ~isPreserved(s, "CFG")

\* A default isInvalidated that also treats the "all" sentinel as preserving.
DefaultIsInvalidatedUnlessAll(t, s) == ~isPreserved(s, t) /\ ~isAll(s)

\* Default implementation of isInvalidated.
DefaultIsInvalidated(t, s) == ~isPreserved(s, t)

\* An AnalysisModel hook that ignores the analysis's own isInvalidated.
isInvalidatedIgnoresHook(t, s) == DefaultIsInvalidated(t, s)

\* AnalysisModel<AnalysisT>::isInvalidated.
isInvalidated(t, s) ==
  IF has_is_invalidated(t) THEN DominatorTreeIsInvalidated(s)
  ELSE DefaultIsInvalidated(t, s)

----------------------------------------------------------------------------
\* detail::AnalysisMap.  A ConceptMap is a function Types -> 0..MaxInst: the
\* identity of the AnalysisModel stored under the type's id, None if no entry.

None == 0

\* Value of an entry that try_emplace(id) has just made: a null unique_ptr.
NullEntry == -1

EmptyConceptMap == [t \in Types |-> None]

AnalysisMapGetCachedAnalysis(m, t) == m[t]

AnalysisMapClear(m) == EmptyConceptMap

\* An AnalysisModel object: analysis type, the operation it was built for,
\* and its identity.
Model(t, ir, inst) == [id |-> t, op |-> ir, inst |-> inst]

\* The AnalysisModel objects a ConceptMap of operation ir owns.
ModelsOf(m, ir) == {Model(t, ir, m[t]) : t \in {u \in Types : m[u] \notin {None, NullEntry}}}

\* A sweep that advances the iterator once more after an erase, as if erase
\* had moved the following entry into the erased slot.
RECURSIVE AnalysisMapInvalidateSkipping(_, _, _)
AnalysisMapInvalidateSkipping(m, s, order) ==
  IF order = <<>> THEN [analyses |-> m, evaluated |-> <<>>]
  ELSE LET curIt == Head(order)
           erase == m[curIt] # None /\ isInvalidated(curIt, s)
           m2 == IF erase THEN [m EXCEPT ![curIt] = None] ELSE m
           it == IF erase /\ Len(order) > 1 THEN Tail(Tail(order)) ELSE Tail(order)
           rest == AnalysisMapInvalidateSkipping(m2, s, it)
       IN  [analyses |-> rest.analyses, evaluated |-> <<curIt>> \o rest.evaluated]

\* The sweep of AnalysisMap::invalidate over the entries in iteration order
\* `order` (a sequence of the keys; DenseMap's order is unspecified): the
\* iterator is advanced before the erase, which leaves a tombstone and moves
\* no other entry.  Gives the map left and the keys whose isInvalidated was
\* called, in order.
RECURSIVE AnalysisMapInvalidateFrom(_, _, _)
AnalysisMapInvalidateFrom(m, s, order) ==
  IF order = <<>> THEN [analyses |-> m, evaluated |-> <<>>]
  ELSE LET curIt == Head(order)
           erase == m[curIt] # None /\ isInvalidated(curIt, s)
           m2 == IF erase THEN [m EXCEPT ![curIt] = None] ELSE m
           rest == AnalysisMapInvalidateFrom(m2, s, Tail(order))
       IN  [analyses |-> rest.analyses, evaluated |-> <<curIt>> \o rest.evaluated]

\* An invalidate whose test is negated: it erases what is not invalidated.
AnalysisMapInvalidateNegated(m, s, order) ==
  [t \in Types |-> IF m[t] # None /\ ~isInvalidated(t, s) THEN None ELSE m[t]]

\* An invalidate that leaves the loop at its first erase.
AnalysisMapInvalidateFirstOnly(m, s, order) ==
  LET hit == {i \in 1..Len(order) : isInvalidated(order[i], s)}
  IN  IF hit = {} THEN m
      ELSE [m EXCEPT ![order[CHOOSE i \in hit : \A j \in hit : i <= j]] = None]

AnalysisMapInvalidate(m, s, order) == AnalysisMapInvalidateFrom(m, s, order).analyses

\* Every sequence that lists each element of `keys` once.
RECURSIVE Permutation(_)
Permutation(keys) ==
  IF keys = {} THEN {<<>>}
  ELSE UNION {{<<k>> \o o : o \in Permutation(keys \ {k})} : k \in keys}

\* Iteration orders of a ConceptMap: the permutations of its keys.
Orders(m) == Permutation({t \in Types : m[t] # None})

\* Notifications received by the PassInstrumentor and the construction
\* between them, in program order.
BeforeEvent(t, ir) ==
  [kind |-> "runBeforeAnalysis", name |-> getAnalysisName(t), id |-> t, op |-> ir, inst |-> None]

ConstructEvent(t, ir, inst) ==
  [kind |-> "construct", name |-> <<>>, id |-> t, op |-> ir, inst |-> inst]

AfterEvent(t, ir) ==
  [kind |-> "runAfterAnalysis", name |-> getAnalysisName(t), id |-> t, op |-> ir, inst |-> None]

\* getAnalysisImpl without the wasInserted test: computes on every call.
getAnalysisImplAlwaysComputes(m, sink, t, ir, fresh) ==
  [analyses |-> [m EXCEPT ![t] = fresh],
   wasInserted |-> TRUE,
   events |-> (IF sink # Null THEN <<BeforeEvent(t, ir)>> ELSE <<>>)
             \o <<ConstructEvent(t, ir, fresh)>>
             \o (IF sink # Null THEN <<AfterEvent(t, ir)>> ELSE <<>>),
   result |-> fresh]

\* getAnalysisImpl with the notifications outside the wasInserted test.
getAnalysisImplNotifiesOnHit(m, sink, t, ir, fresh) ==
  LET wasInserted == m[t] = None
      before == IF sink # Null THEN <<BeforeEvent(t, ir)>> ELSE <<>>
      after == IF sink # Null THEN <<AfterEvent(t, ir)>> ELSE <<>>
  IN  IF wasInserted
        THEN [analyses |-> [m EXCEPT ![t] = fresh], wasInserted |-> TRUE,
              events |-> before \o <<ConstructEvent(t, ir, fresh)>> \o after,
              result |-> fresh]
        ELSE [analyses |-> m, wasInserted |-> FALSE, events |-> before \o after,
              result |-> m[t]]

\* AnalysisMap::getAnalysisImpl on cache m of operation ir; sink is the
\* PassInstrumentor (Null if none) and fresh the identity of the object
\* make_unique would allocate.
getAnalysisImpl(m, sink, t, ir, fresh) ==
  LET wasInserted == m[t] = None
  IN  IF wasInserted
        THEN [analyses |-> [m EXCEPT ![t] = fresh],
              wasInserted |-> TRUE,
              events |-> (IF sink # Null THEN <<BeforeEvent(t, ir)>> ELSE <<>>)
                        \o <<ConstructEvent(t, ir, fresh)>>
                        \o (IF sink # Null THEN <<AfterEvent(t, ir)>> ELSE <<>>),
              result |-> fresh]
        ELSE [analyses |-> m, wasInserted |-> FALSE, events |-> <<>>,
              result |-> m[t]]

----------------------------------------------------------------------------
\* State.

VARIABLES
  childAnalyses,         \* op -> keys of NestedAnalysisMap::childAnalyses
  analyses,              \* op -> ConceptMap of the op's NestedAnalysisMap
  parentOrInstrumentor,  \* op -> the PointerUnion of the op's NestedAnalysisMap
  constructed,           \* number of AnalysisModel objects constructed so far
  recording,             \* whether this behaviour keeps the construction history
  built,                 \* if so: per object constructed so far, its type and its op
  active,                \* stack of the getAnalysisImpl activations that have not returned
  notified,              \* <<runBeforeAnalysis, runAfterAnalysis>> calls the sink has seen
  pa,                    \* preservedIDs of the PreservedAnalyses a pass is filling in
  paCalls,               \* the preserve / preserveAll calls made on it so far
  call,                  \* the last call: which operation, on the view of which op
  ret,                   \* what it returned
  log,                   \* the notifications and constructions it caused, in order
  freed                  \* the AnalysisModel objects it destroyed

vars == <<childAnalyses, analyses, parentOrInstrumentor, constructed, recording,
          built, active, notified, pa, paCalls, call, ret, log, freed>>

treeVars == <<childAnalyses, analyses, parentOrInstrumentor>>

paVars == <<pa, paCalls>>

TheSink == "PassInstrumentor"

\* PointerUnion<NestedAnalysisMap *, PassInstrumentor *>.
ParentPtr(p) == [isParent |-> TRUE, ptr |-> p]

InstrumentorPtr(i) == [isParent |-> FALSE, ptr |-> i]

\* The three members of every NestedAnalysisMap, as one value.
Tree == [childAnalyses |-> childAnalyses, analyses |-> analyses,
         parentOrInstrumentor |-> parentOrInstrumentor]

\* An op has a NestedAnalysisMap: it is the root's or a key of some child map.
Live(T, op) == op = RootOp \/ \E p \in Nodes : op \in T.childAnalyses[p]

\* NestedAnalysisMap::getParent.
getParent(T, op) ==
  IF T.parentOrInstrumentor[op].isParent THEN T.parentOrInstrumentor[op].ptr
  ELSE Null

\* A getPassInstrumentor that reads the map's own union without walking up.
getPassInstrumentorOwnUnion(T, op) ==
  IF T.parentOrInstrumentor[op].isParent THEN Null
  ELSE T.parentOrInstrumentor[op].ptr

\* NestedAnalysisMap::getPassInstrumentor.
RECURSIVE getPassInstrumentor(_, _)
getPassInstrumentor(T, op) ==
  IF getParent(T, op) # Null THEN getPassInstrumentor(T, getParent(T, op))
  ELSE T.parentOrInstrumentor[op].ptr

\* The NestedAnalysisMaps owned, directly or not, by op's childAnalyses.
RECURSIVE Owned(_, _)
Owned(T, op) ==
  T.childAnalyses[op] \cup UNION {Owned(T, c) : c \in T.childAnalyses[op]}

\* Destruction of the NestedAnalysisMaps of the ops in `dead`.
Destroy(T, dead) ==
  [childAnalyses |-> [o \in Nodes |-> IF o \in dead THEN {} ELSE T.childAnalyses[o]],
   analyses |-> [o \in Nodes |-> IF o \in dead THEN EmptyConceptMap ELSE T.analyses[o]],
   parentOrInstrumentor |->
     [o \in Nodes |-> IF o \in dead THEN InstrumentorPtr(Null)
                      ELSE T.parentOrInstrumentor[o]]]

\* A newly made NestedAnalysisMap(op, parent) stored under key op of p's map;
\* what the key held before is destroyed.
EmplaceChild(T, p, op) ==
  LET T1 == Destroy(T, IF op \in T.childAnalyses[p] THEN {op} \cup Owned(T, op) ELSE {})
  IN  [childAnalyses |-> [T1.childAnalyses EXCEPT ![p] = @ \cup {op}],
       analyses |-> T1.analyses,
       parentOrInstrumentor |-> [T1.parentOrInstrumentor EXCEPT ![op] = ParentPtr(p)]]

\* A nestImmediate that emplaces without looking the child up.
nestImmediateAlwaysEmplaces(T, p, op) == EmplaceChild(T, p, op)

\* AnalysisManager::nestImmediate: find the child's map or create it.
nestImmediate(T, p, op) ==
  IF op \in T.childAnalyses[p] THEN T ELSE EmplaceChild(T, p, op)

\* AnalysisManager::nest from the view on n to its proper descendant op,
\* creating the intermediate levels top-down.
RECURSIVE nest(_, _, _)
nest(T, n, op) ==
  IF getParentOp(op) = n THEN nestImmediate(T, n, op)
  ELSE nestImmediate(nest(T, n, getParentOp(op)), getParentOp(op), op)

\* An invalidate that also sweeps every NestedAnalysisMap below n.
NestedInvalidateRecursive(T, n, s, order) ==
  [T EXCEPT !.analyses =
     [o \in Nodes |->
        IF o = n THEN AnalysisMapInvalidate(T.analyses[o], s, order)
        ELSE IF o \in Owned(T, n)
          THEN AnalysisMapInvalidate(T.analyses[o], s,
                 CHOOSE q \in Orders(T.analyses[o]) : TRUE)
          ELSE T.analyses[o]]]

\* NestedAnalysisMap::invalidate: sweeps the map's own AnalysisMap.
NestedInvalidate(T, n, s, order) ==
  [T EXCEPT !.analyses[n] = AnalysisMapInvalidate(@, s, order)]

\* A clear that leaves childAnalyses alone.
ManagerClearOwnOnly(T, n) == [T EXCEPT !.analyses[n] = AnalysisMapClear(@)]

\* AnalysisManager::clear.
ManagerClear(T, n) ==
  LET T1 == [T EXCEPT !.analyses[n] = AnalysisMapClear(@)]
      T2 == Destroy(T1, Owned(T1, n))
  IN  [T2 EXCEPT !.childAnalyses[n] = {}]

\* AnalysisManager::getCachedParentAnalysis, the walk from curParent.
RECURSIVE getCachedParentAnalysisFrom(_, _, _, _)
getCachedParentAnalysisFrom(T, curParent, parentOp, t) ==
  LET parentAM == getParent(T, curParent)
  IN  IF parentAM = Null THEN None
      ELSE IF parentAM = parentOp
        THEN AnalysisMapGetCachedAnalysis(T.analyses[parentAM], t)
        ELSE getCachedParentAnalysisFrom(T, parentAM, parentOp, t)

\* A getCachedParentAnalysis that tests the view's own map before walking up.
getCachedParentAnalysisFromSelf(T, n, parentOp, t) ==
  IF n = parentOp THEN AnalysisMapGetCachedAnalysis(T.analyses[n], t)
  ELSE getCachedParentAnalysisFrom(T, n, parentOp, t)

getCachedParentAnalysis(T, n, parentOp, t) ==
  getCachedParentAnalysisFrom(T, n, parentOp, t)

\* A getCachedChildAnalysis that finds op's map wherever it is in the tree.
getCachedChildAnalysisAnyMap(T, n, op, t) ==
  [tree |-> T,
   result |-> IF ~Live(T, op) THEN None
              ELSE AnalysisMapGetCachedAnalysis(T.analyses[op], t)]

\* A getCachedChildAnalysis that goes through nest(op).
getCachedChildAnalysisViaNest(T, n, op, t) ==
  IF getParentOp(op) # n THEN [tree |-> T, result |-> None]
  ELSE [tree |-> nest(T, n, op),
        result |-> AnalysisMapGetCachedAnalysis(nest(T, n, op).analyses[op], t)]

\* AnalysisManager::getCachedChildAnalysis past its assert: the result of the
\* lookup and the tree the (const) call leaves.
getCachedChildAnalysis(T, n, op, t) ==
  [tree |-> T,
   result |-> IF op \notin T.childAnalyses[n] THEN None
              ELSE AnalysisMapGetCachedAnalysis(T.analyses[op], t)]

\* A getAnalysis that hands the root operation to the analysis constructor.
ManagerGetAnalysisOfRootOp(T, n, t, fresh) ==
  LET r == getAnalysisImpl(T.analyses[n], getPassInstrumentor(T, n), t, RootOp, fresh)
  IN  [tree |-> [T EXCEPT !.analyses[n] = r.analyses], events |-> r.events,
       result |-> r.result]

\* AnalysisManager::getAnalysis on the view of n; the result of
\* getAnalysisImpl with the tree it leaves.
ManagerGetAnalysis(T, n, t, fresh) ==
  LET r == getAnalysisImpl(T.analyses[n], getPassInstrumentor(T, n), t, n, fresh)
  IN  [tree |-> [T EXCEPT !.analyses[n] = r.analyses], events |-> r.events,
       result |-> r.result]

\* AnalysisManager::getChildAnalysis on the view of n.
ManagerGetChildAnalysis(T, n, op, t, fresh) ==
  ManagerGetAnalysis(nest(T, n, op), op, t, fresh)

----------------------------------------------------------------------------
\* Calls and results as recorded in `call` and `ret`.

\* The operation, the op whose view it is called on, its Operation* (or
\* TypeID) argument, its analysis type and its PreservedAnalyses argument
\* (Null, {} where there is none).
Call(op, n, arg, t, s) == [op |-> op, node |-> n, arg |-> arg, type |-> t, pa |-> s]

\* The caller is between two calls.
NoCall == Call("none", Null, Null, Null, {})

Idle == call = NoCall

Returned(inst) == [status |-> "returned", inst |-> inst, view |-> Null, bool |-> FALSE]

ReturnedView(n) == [status |-> "returned", inst |-> None, view |-> n, bool |-> FALSE]

ReturnedBool(b) == [status |-> "returned", inst |-> None, view |-> Null, bool |-> b]

AssertionFailed == [status |-> "assert", inst |-> None, view |-> Null, bool |-> FALSE]

NoResult == [status |-> "none", inst |-> None, view |-> Null, bool |-> FALSE]

\* Undefined behaviour ended the process.
Crashed == [status |-> "crash", inst |-> None, view |-> Null, bool |-> FALSE]

\* Every AnalysisModel object alive in the tree.
AllModels(T) == UNION {ModelsOf(T.analyses[o], o) : o \in Nodes}

\* The call leaves the tree T; the objects no map owns any more are destroyed.
SetTree(T) ==
  \E T2 \in {T} :
    /\ childAnalyses' = T2.childAnalyses
    /\ analyses' = T2.analyses
    /\ parentOrInstrumentor' = T2.parentOrInstrumentor
    /\ freed' = AllModels(Tree) \ AllModels(T2)

Count(events, kind) == Cardinality({i \in 1..Len(events) : events[i].kind = kind})

\* The objects `events` constructs, in order: AnalysisModel<id>(op).
RECURSIVE Constructions(_)
Constructions(events) ==
  IF events = <<>> THEN <<>>
  ELSE (IF Head(events).kind = "construct"
          THEN <<[id |-> Head(events).id, op |-> Head(events).op]>> ELSE <<>>)
       \o Constructions(Tail(events))

\* The sink and the allocator see `events`.
Emit(events) ==
  /\ log' = events
  /\ constructed' = constructed + Count(events, "construct")
  /\ built' = IF recording THEN built \o Constructions(events) ELSE built
  /\ UNCHANGED <<recording, active>>
  /\ notified' = <<notified[1] + Count(events, "runBeforeAnalysis"),
                   notified[2] + Count(events, "runAfterAnalysis")>>

----------------------------------------------------------------------------
\* ModuleAnalysisManager(op, passInstrumentor): the root map of RootOp holding
\* passInstrumentor, and a default-constructed PreservedAnalyses.
InitWith(passInstrumentor, keepHistory) ==
  /\ parentOrInstrumentor =
       [o \in Nodes |-> IF o = RootOp THEN InstrumentorPtr(passInstrumentor)
                        ELSE InstrumentorPtr(Null)]
  /\ childAnalyses = [o \in Nodes |-> {}]
  /\ analyses = [o \in Nodes |-> EmptyConceptMap]
  /\ constructed = 0
  /\ recording = keepHistory
  /\ built = <<>>
  /\ active = <<>>
  /\ notified = <<0, 0>>
  /\ pa = EmptyPreserved
  /\ paCalls = {}
  /\ call = NoCall
  /\ ret = NoResult
  /\ log = <<>>
  /\ freed = {}

\* A compilation with a PassInstrumentor installed, or without one.
Init == \E passInstrumentor \in {TheSink, Null} : InitWith(passInstrumentor, FALSE)

\* The same with a PassInstrumentor installed and the construction history kept.
InitHistory == InitWith(TheSink, TRUE)

\* AnalysisManager::getAnalysis<t>() on the view of n.
GetAnalysis(n, t) ==
  /\ Idle
  /\ Live(Tree, n)
  /\ analyses[n][t] = None => constructed < MaxInst
  /\ LET r == ManagerGetAnalysis(Tree, n, t, constructed + 1)
     IN  /\ SetTree(r.tree)
         /\ Emit(r.events)
         /\ ret' = Returned(r.result)
  /\ call' = Call("getAnalysis", n, Null, t, {})
  /\ UNCHANGED paVars

\* AnalysisManager::getCachedAnalysis<t>() on the view of n.
GetCachedAnalysis(n, t) ==
  /\ Idle
  /\ Live(Tree, n)
  /\ ret' = Returned(AnalysisMapGetCachedAnalysis(analyses[n], t))
  /\ call' = Call("getCachedAnalysis", n, Null, t, {})
  /\ Emit(<<>>)
  /\ freed' = {}
  /\ UNCHANGED treeVars
  /\ UNCHANGED paVars

\* AnalysisManager::getCachedParentAnalysis<t>(parentOp) on the view of n.
GetCachedParentAnalysis(n, parentOp, t) ==
  /\ Idle
  /\ Live(Tree, n)
  /\ ret' = Returned(getCachedParentAnalysis(Tree, n, parentOp, t))
  /\ call' = Call("getCachedParentAnalysis", n, parentOp, t, {})
  /\ Emit(<<>>)
  /\ freed' = {}
  /\ UNCHANGED treeVars
  /\ UNCHANGED paVars

\* AnalysisManager::getCachedChildAnalysis<t>(op) on the view of n.  With the
\* assert compiled in, a violated precondition aborts; compiled out, the
\* lookup runs.
GetCachedChildAnalysis(n, op, t) ==
  /\ Idle
  /\ Live(Tree, n)
  /\ \/ /\ getParentOp(op) # n
        /\ ret' = AssertionFailed
        /\ freed' = {}
        /\ UNCHANGED treeVars
     \/ LET r == getCachedChildAnalysis(Tree, n, op, t)
        IN  /\ ret' = Returned(r.result)
            /\ SetTree(r.tree)
  /\ call' = Call("getCachedChildAnalysis", n, op, t, {})
  /\ Emit(<<>>)
  /\ UNCHANGED paVars

\* AnalysisManager::nest(op) on the view of n.
Nest(n, op) ==
  /\ Idle
  /\ Live(Tree, n)
  /\ isProperAncestor(n, op)
  /\ SetTree(nest(Tree, n, op))
  /\ ret' = ReturnedView(op)
  /\ call' = Call("nest", n, op, Null, {})
  /\ Emit(<<>>)
  /\ UNCHANGED paVars

\* AnalysisManager::getChildAnalysis<t>(op) on the view of n.
GetChildAnalysis(n, op, t) ==
  /\ Idle
  /\ Live(Tree, n)
  /\ isProperAncestor(n, op)
  /\ nest(Tree, n, op).analyses[op][t] = None => constructed < MaxInst
  /\ LET r == ManagerGetChildAnalysis(Tree, n, op, t, constructed + 1)
     IN  /\ SetTree(r.tree)
         /\ Emit(r.events)
         /\ ret' = Returned(r.result)
  /\ call' = Call("getChildAnalysis", n, op, t, {})
  /\ UNCHANGED paVars

\* Every PreservedAnalyses value a pass can build.
PreservedSets == SUBSET Ids

\* AnalysisManager::invalidate(s) on the view of n.
Invalidate(n, s) ==
  /\ Idle
  /\ Live(Tree, n)
  /\ \E order \in Orders(analyses[n]) : SetTree(NestedInvalidate(Tree, n, s, order))
  /\ ret' = Returned(None)
  /\ call' = Call("invalidate", n, Null, Null, s)
  /\ Emit(<<>>)
  /\ UNCHANGED paVars

\* AnalysisManager::clear() on the view of n.
Clear(n) ==
  /\ Idle
  /\ Live(Tree, n)
  /\ SetTree(ManagerClear(Tree, n))
  /\ ret' = Returned(None)
  /\ call' = Call("clear", n, Null, Null, {})
  /\ Emit(<<>>)
  /\ UNCHANGED paVars

\* The caller takes the result and goes on to its next call; a failed
\* assertion or a crash has ended the process.
Resume ==
  /\ ~Idle
  /\ ret.status = "returned"
  /\ call' = NoCall
  /\ ret' = NoResult
  /\ log' = <<>>
  /\ freed' = {}
  /\ UNCHANGED <<treeVars, constructed, recording, built, active, notified, paVars>>

Next ==
  \/ \E n \in Nodes, t \in Types : GetAnalysis(n, t)
  \/ \E n \in Nodes, t \in Types : GetCachedAnalysis(n, t)
  \/ \E n \in Nodes, parentOp \in Nodes, t \in Types : GetCachedParentAnalysis(n, parentOp, t)
  \/ \E n \in Nodes, op \in Nodes, t \in Types : GetCachedChildAnalysis(n, op, t)
  \/ \E n \in Nodes, op \in Nodes : Nest(n, op)
  \/ \E n \in Nodes, op \in Nodes, t \in Types : GetChildAnalysis(n, op, t)
  \/ \E n \in Nodes, s \in PreservedSets : Invalidate(n, s)
  \/ \E n \in Nodes : Clear(n)
  \/ Resume

Spec == Init /\ [][Next]_vars

SpecHistory == InitHistory /\ [][Next]_vars

----------------------------------------------------------------------------
\* A pass declaring what it preserved: the calls on one PreservedAnalyses.

PaCall(op, id) == Call(op, Null, id, Null, {})

PaFrame == UNCHANGED <<treeVars, constructed, recording, built, active, notified, log, freed>>

\* PreservedAnalyses(): a fresh, empty set.
NewPreserved ==
  /\ Idle
  /\ pa' = EmptyPreserved
  /\ paCalls' = {}
  /\ call' = PaCall("PreservedAnalyses", Null)
  /\ ret' = Returned(None)
  /\ PaFrame

\* PreservedAnalyses::preserve(id).
Preserve(id) ==
  /\ Idle
  /\ pa' = preserve(pa, id)
  /\ paCalls' = paCalls \cup {id}
  /\ call' = PaCall("preserve", id)
  /\ ret' = Returned(None)
  /\ PaFrame

\* PreservedAnalyses::preserveAll().
PreserveAll ==
  /\ Idle
  /\ pa' = preserveAll(pa)
  /\ paCalls' = paCalls \cup {"preserveAll"}
  /\ call' = PaCall("preserveAll", Null)
  /\ ret' = Returned(None)
  /\ PaFrame

\* PreservedAnalyses::isPreserved(id).
IsPreserved(id) ==
  /\ Idle
  /\ ret' = ReturnedBool(isPreserved(pa, id))
  /\ call' = PaCall("isPreserved", id)
  /\ UNCHANGED paVars
  /\ PaFrame

\* PreservedAnalyses::isAll().
IsAll ==
  /\ Idle
  /\ ret' = ReturnedBool(isAll(pa))
  /\ call' = PaCall("isAll", Null)
  /\ UNCHANGED paVars
  /\ PaFrame

\* PreservedAnalyses::isNone().
IsNone ==
  /\ Idle
  /\ ret' = ReturnedBool(isNone(pa))
  /\ call' = PaCall("isNone", Null)
  /\ UNCHANGED paVars
  /\ PaFrame

NextPA ==
  \/ NewPreserved
  \/ \E id \in AnalysisIds : Preserve(id)
  \/ PreserveAll
  \/ \E id \in AnalysisIds : IsPreserved(id)
  \/ IsAll
  \/ IsNone
  \/ Resume

SpecPA == Init /\ [][NextPA]_vars

----------------------------------------------------------------------------
\* getAnalysisImpl statement by statement.  The PassInstrumentor callbacks
\* and the analysis constructor are foreign code running on the caller's
\* thread inside getAnalysisImpl; while one of them runs it can call the
\* AnalysisManager itself.  `active` holds the activations that are inside
\* such code, innermost last.

\* An activation for type t on the map of n, inside the foreign code `pc`;
\* stale when the map has changed since its try_emplace returned `it`.
Frame(n, t, pc) == [node |-> n, type |-> t, pc |-> pc, stale |-> FALSE]

Top == active[Len(active)]

Pop(frames) == SubSeq(frames, 1, Len(frames) - 1)

\* The map of n changed: the iterators into it are out of date.
Staled(frames, n) ==
  [i \in DOMAIN frames |->
     IF frames[i].node = n THEN [frames[i] EXCEPT !.stale = TRUE] ELSE frames[i]]

\* What dereferencing a map entry gives: the object, or for a null
\* unique_ptr a reference to no object or a crash.
Deref(entry) ==
  IF entry \in {None, NullEntry} THEN {Returned(NullEntry), Crashed}
  ELSE {Returned(entry)}

\* Using the iterator `it` of the innermost activation: where iterator
\* checking is compiled in, a stale one fails its assertion.
UseIt(outcomes) == IF Top.stale THEN outcomes \cup {AssertionFailed} ELSE outcomes

\* getAnalysis<t>() on the view of n, up to the first foreign code: with no
\* entry, try_emplace makes a null one and the call goes on to
\* runBeforeAnalysis or, with no PassInstrumentor, to the constructor; with
\* an entry it returns what the entry points to.
GetAnalysisEnter(n, t) ==
  /\ Idle
  /\ Live(Tree, n)
  /\ LET sink == getPassInstrumentor(Tree, n)
     IN  \/ /\ analyses[n][t] = None
            /\ constructed + Len(active) < MaxInst
            /\ analyses' = [analyses EXCEPT ![n][t] = NullEntry]
            /\ active' = Append(Staled(active, n),
                                Frame(n, t, IF sink # Null THEN "runBeforeAnalysis"
                                            ELSE "constructor"))
            /\ log' = IF sink # Null THEN <<BeforeEvent(t, n)>> ELSE <<>>
            /\ notified' = IF sink # Null THEN <<notified[1] + 1, notified[2]>>
                           ELSE notified
            /\ UNCHANGED <<call, ret>>
         \/ /\ analyses[n][t] # None
            /\ ret' \in Deref(getAnalysisImpl(analyses[n], sink, t, n, constructed + 1).result)
            /\ call' = Call("getAnalysis", n, Null, t, {})
            /\ log' = <<>>
            /\ UNCHANGED <<analyses, active, notified>>
  /\ freed' = {}
  /\ UNCHANGED <<childAnalyses, parentOrInstrumentor, constructed, recording, built, paVars>>

\* runBeforeAnalysis returns: the constructor is entered.
ReturnFromBefore ==
  /\ Idle
  /\ active # <<>>
  /\ Top.pc = "runBeforeAnalysis"
  /\ active' = [active EXCEPT ![Len(active)].pc = "constructor"]
  /\ log' = <<>>
  /\ freed' = {}
  /\ UNCHANGED <<treeVars, constructed, recording, built, notified, paVars, call, ret>>

\* The constructor returns: it->second takes the new AnalysisModel; then
\* runAfterAnalysis is entered or, with no PassInstrumentor, the call returns
\* the object.
ReturnFromConstructor ==
  /\ Idle
  /\ active # <<>>
  /\ Top.pc = "constructor"
  /\ LET n == Top.node
         t == Top.type
         fresh == constructed + 1
         sink == getPassInstrumentor(Tree, n)
     IN  /\ constructed' = fresh
         /\ built' = IF recording THEN Append(built, [id |-> t, op |-> n]) ELSE built
         /\ \E outcome \in UseIt({Returned(fresh)}) :
              IF outcome = AssertionFailed
                THEN /\ ret' = outcome
                     /\ call' = Call("getAnalysis", n, Null, t, {})
                     /\ log' = <<ConstructEvent(t, n, fresh)>>
                     /\ UNCHANGED <<analyses, active, notified>>
                ELSE /\ analyses' = [analyses EXCEPT ![n][t] = fresh]
                     /\ IF sink # Null
                          THEN /\ active' = [active EXCEPT ![Len(active)].pc = "runAfterAnalysis"]
                               /\ log' = <<ConstructEvent(t, n, fresh), AfterEvent(t, n)>>
                               /\ notified' = <<notified[1], notified[2] + 1>>
                               /\ UNCHANGED <<call, ret>>
                          ELSE /\ active' = Pop(active)
                               /\ log' = <<ConstructEvent(t, n, fresh)>>
                               /\ ret' = outcome
                               /\ call' = Call("getAnalysis", n, Null, t, {})
                               /\ UNCHANGED notified
  /\ freed' = {}
  /\ UNCHANGED <<childAnalyses, parentOrInstrumentor, recording, paVars>>

\* runAfterAnalysis returns: the call returns what it->second points to.
ReturnFromAfter ==
  /\ Idle
  /\ active # <<>>
  /\ Top.pc = "runAfterAnalysis"
  /\ ret' \in UseIt(Deref(analyses[Top.node][Top.type]))
  /\ call' = Call("getAnalysis", Top.node, Null, Top.type, {})
  /\ active' = Pop(active)
  /\ log' = <<>>
  /\ freed' = {}
  /\ UNCHANGED <<treeVars, constructed, recording, built, notified, paVars>>

\* getCachedAnalysis<t>() on the view of n, whatever is active.
GetCachedAnalysisAnytime(n, t) ==
  /\ Idle
  /\ Live(Tree, n)
  /\ ret' \in (IF analyses[n][t] = None
                 THEN {Returned(AnalysisMapGetCachedAnalysis(analyses[n], t))}
                 ELSE Deref(AnalysisMapGetCachedAnalysis(analyses[n], t)))
  /\ call' = Call("getCachedAnalysis", n, Null, t, {})
  /\ log' = <<>>
  /\ freed' = {}
  /\ UNCHANGED <<treeVars, constructed, recording, built, active, notified, paVars>>

\* invalidate(s) on the view of n, whatever is active.  On a null entry the
\* sweep makes a virtual call through a null pointer, which loads the
\* vtable pointer from address zero.
InvalidateAnytime(n, s) ==
  /\ Idle
  /\ Live(Tree, n)
  /\ IF \E t \in Types : analyses[n][t] = NullEntry
       THEN /\ ret' = Crashed
            /\ freed' = {}
            /\ UNCHANGED <<treeVars, active>>
       ELSE \E order \in Orders(analyses[n]) :
              LET T == NestedInvalidate(Tree, n, s, order)
              IN  /\ SetTree(T)
                  /\ ret' = Returned(None)
                  /\ active' = IF T.analyses[n] # analyses[n] THEN Staled(active, n)
                                ELSE active
  /\ call' = Call("invalidate", n, Null, Null, s)
  /\ log' = <<>>
  /\ UNCHANGED <<constructed, recording, built, notified, paVars>>

NextReentrant ==
  \/ \E n \in Nodes, t \in Types : GetAnalysisEnter(n, t)
  \/ ReturnFromBefore
  \/ ReturnFromConstructor
  \/ ReturnFromAfter
  \/ \E n \in Nodes, t \in Types : GetCachedAnalysisAnytime(n, t)
  \/ \E n \in Nodes, s \in PreservedSets : InvalidateAnytime(n, s)
  \/ \E n \in Nodes, op \in Nodes : Nest(n, op)
  \/ Resume

SpecReentrant == Init /\ [][NextReentrant]_vars

----------------------------------------------------------------------------
\* Properties.

ReadOps == {"getCachedAnalysis", "getCachedParentAnalysis", "getCachedChildAnalysis"}

\* The step is a getAnalysis<t>() on a view of n, direct or through
\* getChildAnalysis.
GetAnalysisOn(n, t) ==
  /\ call'.type = t
  /\ \/ call'.op = "getAnalysis" /\ call'.node = n
     \/ call'.op = "getChildAnalysis" /\ call'.arg = n

\* C1: getAnalysis<T>() on a node returns the instance its cache holds
\* afterwards; when T is already cached on the node it returns that very
\* instance and constructs nothing; and a cached instance leaves a node's
\* cache only in an invalidate or clear call.  So two getAnalysis<T>() calls
\* with no evicting invalidate or clear between them return the same instance
\* and the second performs no construction.
IdentityStability ==
  [][\A n \in Nodes, t \in Types :
       /\ GetAnalysisOn(n, t) =>
            /\ ret'.inst # None
            /\ ret'.inst = analyses'[n][t]
            /\ analyses[n][t] # None =>
                 /\ ret'.inst = analyses[n][t]
                 /\ constructed' = constructed
                 /\ Count(log', "construct") = 0
       /\ (analyses[n][t] # None /\ analyses'[n][t] # analyses[n][t]) =>
            call'.op \in {"invalidate", "clear"}]_vars

\* A getAnalysis call found the analysis cached and returned it.
IdentityStabilityWitness ==
  /\ call.op = "getAnalysis"
  /\ log = <<>>
  /\ ret.inst # None
  /\ analyses[call.node][call.type] = ret.inst

\* The three events of one real construction of t on n as instance inst.
ExpectedConstruction(n, t, inst) ==
  << [kind |-> "runBeforeAnalysis", name |-> <<t>>, id |-> t, op |-> n, inst |-> None],
     [kind |-> "construct", name |-> <<>>, id |-> t, op |-> n, inst |-> inst],
     [kind |-> "runAfterAnalysis", name |-> <<t>>, id |-> t, op |-> n, inst |-> None] >>

\* The root owner was given a PassInstrumentor.
SinkInstalled == getPassInstrumentor(Tree, RootOp) # Null

\* C2: with a sink installed, every call either notifies nothing and
\* constructs nothing, or is a getAnalysis / getChildAnalysis that missed and
\* makes the sink see exactly runBeforeAnalysis, then the one construction,
\* then runAfterAnalysis, with the same name, type id and node; cache hits
\* and getCached* / nest / invalidate / clear calls notify nothing; the sink
\* has seen one before and one after per construction so far.
InstrumentationOncePerConstruction ==
  [][SinkInstalled =>
     /\ notified' = <<constructed', constructed'>>
     /\ \/ log' = <<>> /\ constructed' = constructed
        \/ \E n \in Nodes, t \in Types :
             /\ GetAnalysisOn(n, t)
             /\ analyses[n][t] = None
             /\ analyses'[n][t] = constructed + 1
             /\ constructed' = constructed + 1
             /\ log' = ExpectedConstruction(n, t, constructed + 1)
     /\ call'.op \notin {"getAnalysis", "getChildAnalysis"} => log' = <<>>
     /\ \A n \in Nodes, t \in Types :
          (analyses[n][t] # None /\ GetAnalysisOn(n, t)) => log' = <<>>]_vars

\* A getAnalysis call constructed an analysis and the sink was notified.
InstrumentationWitness ==
  /\ SinkInstalled
  /\ call.op = "getAnalysis"
  /\ log = ExpectedConstruction(call.node, call.type, ret.inst)
  /\ notified = <<constructed, constructed>>
  /\ constructed = MaxInst

\* C3: after invalidate(s) on n, an analysis without its own isInvalidated
\* that was cached on n is absent from getCachedAnalysis if
\* s.isPreserved(its id) is false, and is the same instance if it is true.
DefaultInvalidation ==
  [][call'.op = "invalidate" =>
       \A t \in Types :
         (~has_is_invalidated(t) /\ analyses[call'.node][t] # None) =>
           AnalysisMapGetCachedAnalysis(analyses'[call'.node], t) =
             (IF isPreserved(call'.pa, t) THEN analyses[call'.node][t] ELSE None)]_vars

\* An invalidate with a set in which Liveness was not preserved destroyed the
\* Liveness of its node.
DefaultInvalidationWitness ==
  /\ call.op = "invalidate"
  /\ ~isPreserved(call.pa, "Liveness")
  /\ analyses[call.node]["Liveness"] = None
  /\ \E m \in freed : m.id = "Liveness" /\ m.op = call.node

\* C4: invalidate(s) with preserveAll() called on s evicts nothing from the
\* node's cache.
PreserveAllEvictsNothing ==
  [][(call'.op = "invalidate" /\ isAll(call'.pa)) =>
       analyses'[call'.node] = analyses[call'.node]]_vars

\* C5 as stated: isPreserved(id) is true iff preserveAll() was called on the
\* set or id was explicitly preserved.
IsPreservedHonoursAll ==
  [][call'.op = "isPreserved" =>
       (ret'.bool <=> ("preserveAll" \in paCalls \/ call'.arg \in paCalls))]_vars

\* C5, amended: isPreserved(id) is true iff id itself was explicitly
\* preserved; a preserveAll() call does not change its answer for any
\* analysis id.
IsPreservedIsMembership ==
  [][call'.op = "isPreserved" => (ret'.bool <=> call'.arg \in paCalls)]_vars

\* isPreserved answered false on a set on which preserveAll() was called.
IsPreservedWitness ==
  /\ call.op = "isPreserved"
  /\ "preserveAll" \in paCalls
  /\ call.arg \notin paCalls
  /\ ~ret.bool

\* C6: an analysis with its own isInvalidated (DominatorTree: invalidated
\* unless CFG or everything is preserved) is evicted by invalidate(s) iff
\* that predicate is true on s, whether or not its own id is in s: it stays
\* cached, same instance, after invalidate({CFG}) and is evicted by
\* invalidate({DominatorTree}).
CustomPredicatePrecedence ==
  [][(call'.op = "invalidate" /\ analyses[call'.node]["DominatorTree"] # None) =>
       LET n == call'.node
           s == call'.pa
       IN  /\ analyses'[n]["DominatorTree"] =
                (IF "CFG" \in s \/ AllAnalysesType \in s
                   THEN analyses[n]["DominatorTree"] ELSE None)
           /\ s = {"CFG"} => analyses'[n]["DominatorTree"] = analyses[n]["DominatorTree"]
           /\ s = {"DominatorTree"} => analyses'[n]["DominatorTree"] = None]_vars

\* invalidate({CFG}) kept the DominatorTree of its node while it destroyed
\* the node's Liveness.
CustomPredicateWitness ==
  /\ call.op = "invalidate"
  /\ call.pa = {"CFG"}
  /\ analyses[call.node]["DominatorTree"] # None
  /\ \E m \in freed : m.id = "Liveness" /\ m.op = call.node

\* C7: invalidate(s) on n changes nothing but n's own cache: every other
\* node's cache, every child mapping and every parent link stay as they were.
TreeIsolation ==
  [][call'.op = "invalidate" =>
       /\ \A o \in Nodes \ {call'.node} : analyses'[o] = analyses[o]
       /\ childAnalyses' = childAnalyses
       /\ parentOrInstrumentor' = parentOrInstrumentor
       /\ \A m \in freed' : m.op = call'.node]_vars

\* An invalidate evicted from its node while a child of the node held a
\* cached analysis the set did not preserve either.
TreeIsolationWitness ==
  /\ call.op = "invalidate"
  /\ freed # {}
  /\ \E o \in Nodes, t \in Types :
       /\ getParentOp(o) = call.node
       /\ analyses[o][t] # None
       /\ isInvalidated(t, call.pa)

\* C8 as stated: clear() on n empties n's cache and leaves the child mapping
\* and every other node's cache unchanged.
ClearIsNonRecursive ==
  [][call'.op = "clear" =>
       /\ analyses'[call'.node] = EmptyConceptMap
       /\ childAnalyses' = childAnalyses
       /\ \A o \in Nodes \ {call'.node} : analyses'[o] = analyses[o]]_vars

\* C8, amended: clear() on n empties n's cache and n's child mapping, which
\* destroys the NestedAnalysisMap of every descendant with all it cached
\* (getCachedChildAnalysis on n is absent for every child afterwards); the
\* maps of the nodes outside n's subtree are unchanged.
ClearDropsSubtree ==
  [][call'.op = "clear" =>
       LET n == call'.node
       IN  /\ analyses'[n] = EmptyConceptMap
           /\ childAnalyses'[n] = {}
           /\ \A d \in Descendants(n) :
                /\ ~Live(Tree', d)
                /\ analyses'[d] = EmptyConceptMap
                /\ childAnalyses'[d] = {}
           /\ \A c \in Nodes, t \in Types :
                getParentOp(c) = n => getCachedChildAnalysis(Tree', n, c, t).result = None
           /\ \A o \in Nodes \ ({n} \cup Descendants(n)) :
                /\ analyses'[o] = analyses[o]
                /\ childAnalyses'[o] = childAnalyses[o]
                /\ parentOrInstrumentor'[o] = parentOrInstrumentor[o]]_vars

\* A clear destroyed an analysis cached on a descendant of its node.
ClearWitness ==
  /\ call.op = "clear"
  /\ childAnalyses[call.node] = {}
  /\ \E m \in freed : isProperAncestor(call.node, m.op)

\* C9: getCachedAnalysis, getCachedParentAnalysis and getCachedChildAnalysis
\* leave the whole tree as it was, construct nothing and notify nothing; and
\* getCachedChildAnalysis for a child with no NestedAnalysisMap returns
\* absent, after which nest(child) gives what it would have given before.
NoCacheCreationOnRead ==
  [][call'.op \in ReadOps =>
       /\ UNCHANGED treeVars
       /\ constructed' = constructed
       /\ log' = <<>>
       /\ freed' = {}
       /\ (/\ call'.op = "getCachedChildAnalysis"
           /\ getParentOp(call'.arg) = call'.node
           /\ ~Live(Tree, call'.arg)) =>
             /\ ret' = Returned(None)
             /\ ~Live(Tree', call'.arg)
             /\ nest(Tree', call'.node, call'.arg) = nest(Tree, call'.node, call'.arg)]_vars

\* getCachedChildAnalysis returned absent for a child that has no
\* NestedAnalysisMap, and it still has none.
NoCacheCreationWitness ==
  /\ call.op = "getCachedChildAnalysis"
  /\ getParentOp(call.arg) = call.node
  /\ ret = Returned(None)
  /\ ~Live(Tree, call.arg)
  /\ constructed > 0

\* At most one NestedAnalysisMap per op: each op is a key of at most one
\* child map, its parent's, and the root of none.
OneMapPerOp ==
  /\ \A op \in Nodes : Cardinality({p \in Nodes : op \in childAnalyses[p]}) <= 1
  /\ \A p \in Nodes : \A op \in childAnalyses[p] : getParentOp(op) = p

\* C10: there is at most one NestedAnalysisMap per op; nest(op) and
\* getChildAnalysis(op) create the maps of op and of the levels between that
\* do not exist yet, empty, and otherwise return a view of the map that is
\* there, so what was cached through an earlier view is what the new view
\* holds; the maps of the ops off the path are unaffected.
ChildReferenceStability ==
  OneMapPerOp /\
  [][/\ OneMapPerOp'
     /\ call'.op \in {"nest", "getChildAnalysis"} =>
          LET n == call'.node
              op == call'.arg
          IN  /\ Live(Tree', op)
              /\ call'.op = "nest" => ret'.view = op
              /\ (call'.op = "getChildAnalysis" /\ analyses[op][call'.type] # None) =>
                   ret'.inst = analyses[op][call'.type]
              /\ \A o \in Nodes :
                   /\ Live(Tree, o) => Live(Tree', o)
                   /\ (Live(Tree, o) /\ (o # op \/ call'.op = "nest")) =>
                        analyses'[o] = analyses[o]
                   /\ (~Live(Tree, o) /\ Live(Tree', o)) =>
                        /\ o = op \/ isProperAncestor(o, op)
                        /\ isProperAncestor(n, o)
                        /\ (o # op \/ call'.op = "nest") => analyses'[o] = EmptyConceptMap]_vars

\* nest returned a view of a map that already held a cached analysis, while
\* a sibling's map holds another.
ChildReferenceWitness ==
  /\ call.op = "nest"
  /\ analyses[call.arg] # EmptyConceptMap
  /\ \E o \in Nodes \ {call.arg} :
       getParentOp(o) = getParentOp(call.arg) /\ analyses[o] # EmptyConceptMap

\* C11: getCachedParentAnalysis<t>(parentOp) on the view of n returns what is
\* cached for t on parentOp when parentOp is a strict ancestor of n (absent
\* if nothing is), and absent when it is not, n itself included; it changes
\* no map, constructs nothing and notifies nothing.
NearestStrictAncestor ==
  [][call'.op = "getCachedParentAnalysis" =>
       /\ ret' = Returned(IF isProperAncestor(call'.arg, call'.node)
                            THEN analyses[call'.arg][call'.type] ELSE None)
       /\ call'.arg = call'.node => ret' = Returned(None)
       /\ UNCHANGED treeVars
       /\ constructed' = constructed
       /\ log' = <<>>]_vars

\* getCachedParentAnalysis on the view of G found an analysis cached on M,
\* two levels up, and the same call with G itself as parentOp would be
\* answered absent although G caches the type too.
NearestStrictAncestorWitness ==
  /\ call.op = "getCachedParentAnalysis"
  /\ call.node = "G"
  /\ call.arg = "M"
  /\ ret.inst # None
  /\ ret.inst = analyses["M"][call.type]
  /\ analyses["G"][call.type] # None

\* Some object was constructed for cell (n, t) before.
BuiltBefore(n, t) == \E i \in 1..Len(built) : built[i] = [id |-> t, op |-> n]

\* C12: an invalidate whose set invalidates t, and a clear, leave the cell of
\* t on their node empty; getCachedAnalysis<t>() on a node whose cell was
\* evicted returns absent; and getAnalysis<t>() on such a node constructs an
\* object that did not exist before, for that type and node, stores it, and
\* the sink sees runBeforeAnalysis and runAfterAnalysis once more.
RecomputationAfterEviction ==
  [][/\ \A t \in Types :
          \/ call'.op = "invalidate" /\ isInvalidated(t, call'.pa)
          \/ call'.op = "clear"
          => AnalysisMapGetCachedAnalysis(analyses'[call'.node], t) = None
     /\ \A n \in Nodes, t \in Types :
          (BuiltBefore(n, t) /\ analyses[n][t] = None) =>
            /\ (call'.op = "getCachedAnalysis" /\ call'.node = n /\ call'.type = t) =>
                 ret' = Returned(None)
            /\ GetAnalysisOn(n, t) =>
                 /\ ret'.inst = Len(built) + 1
                 /\ Len(built') = Len(built) + 1
                 /\ built'[ret'.inst] = [id |-> t, op |-> n]
                 /\ analyses'[n][t] = ret'.inst
                 /\ log' = ExpectedConstruction(n, t, ret'.inst)
                 /\ notified' = <<notified[1] + 1, notified[2] + 1>>]_vars

\* getAnalysis constructed the second object for a cell whose first object
\* had been evicted, and the sink was notified a second time.
RecomputationWitness ==
  /\ call.op = "getAnalysis"
  /\ Len(built) = 2
  /\ built[1] = [id |-> call.type, op |-> call.node]
  /\ built[2] = built[1]
  /\ ret.inst = 2
  /\ analyses[call.node][call.type] = 2
  /\ log = ExpectedConstruction(call.node, call.type, 2)
  /\ notified = <<2, 2>>

\* C13: in every reachable tree the root's map holds the PassInstrumentor
\* pointer it was constructed with and has no parent, every other map holds
\* a parent, which is the live map of its op's parent op, and
\* getPassInstrumentor on any map returns the pointer held at the root; when
\* that pointer is null, a getAnalysis that misses still constructs and
\* caches the analysis, and nothing is notified.
SinkRouting ==
  /\ [](\A o \in Nodes :
          Live(Tree, o) =>
            /\ (getParent(Tree, o) = Null) <=> (o = RootOp)
            /\ parentOrInstrumentor[o].isParent <=> (o # RootOp)
            /\ o # RootOp =>
                 /\ getParent(Tree, o) = getParentOp(o)
                 /\ Live(Tree, getParent(Tree, o))
                 /\ o \in childAnalyses[getParent(Tree, o)]
            /\ getPassInstrumentor(Tree, o) = parentOrInstrumentor[RootOp].ptr)
  /\ [][/\ parentOrInstrumentor'[RootOp] = parentOrInstrumentor[RootOp]
        /\ ~SinkInstalled =>
             /\ notified' = <<0, 0>>
             /\ \A n \in Nodes, t \in Types :
                  (GetAnalysisOn(n, t) /\ analyses[n][t] = None) =>
                    /\ log' = <<ConstructEvent(t, n, constructed + 1)>>
                    /\ analyses'[n][t] = constructed + 1
                    /\ ret' = Returned(constructed + 1)]_vars

\* With no PassInstrumentor installed, getAnalysis on the view of G, two
\* levels below the root, constructed and cached an analysis unnotified.
SinkRoutingWitness ==
  /\ ~SinkInstalled
  /\ call.op = "getAnalysis"
  /\ call.node = "G"
  /\ getPassInstrumentor(Tree, "G") = Null
  /\ log = <<ConstructEvent(call.type, "G", ret.inst)>>
  /\ analyses["G"][call.type] = ret.inst
  /\ notified = <<0, 0>>

IsNoneIsAllLiteral ==
  [][/\ call'.op = "isNone" => (ret'.bool <=> paCalls = {})
     /\ call'.op = "isAll" => (ret'.bool <=> "preserveAll" \in paCalls)
     /\ call'.op \in {"isNone", "isAll"} => UNCHANGED paVars]_vars

\* isNone answered false on a set on which only preserveAll() was called.
IsNoneIsAllWitness ==
  /\ call.op = "isNone"
  /\ paCalls = {"preserveAll"}
  /\ ~ret.bool

\* The cells of m whose isInvalidated is false on s.
Survivors(m, s) == [t \in Types |-> IF m[t] # None /\ ~isInvalidated(t, s) THEN m[t] ELSE None]

\* C17: invalidate(s) leaves exactly the cells whose isInvalidated is false
\* on s, and so does the sweep in every iteration order of the node's map,
\* calling isInvalidated once on each cell that was stored and on nothing
\* else.
InvalidateOrderIndependent ==
  [][call'.op = "invalidate" =>
       LET m == analyses[call'.node]
           cells == {t \in Types : m[t] # None}
       IN  /\ analyses'[call'.node] = Survivors(m, call'.pa)
           /\ \A order \in Orders(m) :
                LET r == AnalysisMapInvalidateFrom(m, call'.pa, order)
                IN  /\ r.analyses = Survivors(m, call'.pa)
                    /\ Len(r.evaluated) = Cardinality(cells)
                    /\ {r.evaluated[i] : i \in 1..Len(r.evaluated)} = cells]_vars

\* An invalidate on a node caching both analyses evicted one and kept the
\* other.
InvalidateOrderWitness ==
  /\ call.op = "invalidate"
  /\ \E t \in Types, u \in Types :
       /\ analyses[call.node][t] # None
       /\ \E m \in freed : m.op = call.node /\ m.id = u

\* C18: every cell holds an object that was constructed as an AnalysisModel
\* of the cell's own type for the operation of the cell's own map; so no
\* object is in two cells, and a type has at most the one cell its id keys
\* in each map.
CellTyping ==
  \A n \in Nodes, t \in Types :
    analyses[n][t] # None =>
      /\ Live(Tree, n)
      /\ analyses[n][t] \in 1..Len(built)
      /\ built[analyses[n][t]] = [id |-> t, op |-> n]
      /\ \A o \in Nodes, u \in Types :
           analyses[o][u] = analyses[n][t] => (o = n /\ u = t)

\* The map of G caches an analysis of each type.
CellTypingWitness ==
  /\ recording
  /\ analyses["G"]["Liveness"] # None
  /\ analyses["G"]["DominatorTree"] # None
  /\ built[analyses["G"]["DominatorTree"]] = [id |-> "DominatorTree", op |-> "G"]

\* C19: invalidate(s) adds no cell and replaces none: each cell of the node
\* is afterwards empty or holds the object it held; and invalidate(s) again,
\* in any iteration order, leaves the node's map and the tree as they are.
InvalidateIdempotent ==
  [][call'.op = "invalidate" =>
       LET n == call'.node
       IN  /\ \A t \in Types : analyses'[n][t] \in {None, analyses[n][t]}
           /\ \A order \in Orders(analyses'[n]) :
                /\ AnalysisMapInvalidate(analyses'[n], call'.pa, order) = analyses'[n]
                /\ NestedInvalidate(Tree', n, call'.pa, order) = Tree']_vars

\* invalidate({Liveness}) evicted the DominatorTree of its node and kept the
\* node's Liveness, which a second sweep would evaluate again.
InvalidateIdempotentWitness ==
  /\ call.op = "invalidate"
  /\ call.pa = {"Liveness"}
  /\ analyses[call.node]["Liveness"] # None
  /\ \E m \in freed : m.op = call.node /\ m.id = "DominatorTree"

\* C14: whenever getAnalysis, getCachedAnalysis or invalidate looks at a
\* node's map, from the driver or from inside a PassInstrumentor callback or
\* an analysis constructor, every entry of the map points to a constructed
\* AnalysisModel; the call returns normally, and what a hit returns is an
\* object constructed before.
ConstructionInsertionAtomic ==
  [][(/\ call'.op \in {"getAnalysis", "getCachedAnalysis", "invalidate"}
      /\ call = NoCall
      /\ active' = active) =>
       /\ \A t \in Types : analyses[call'.node][t] # NullEntry
       /\ ret'.status = "returned"
       /\ ret'.inst \in 0..constructed]_vars

====
